---- MODULE Spec2Model ----
(***************************************************************************)
(* Model of src/tools/linkchecker/main.rs: the documentation link checker. *)
(*                                                                         *)
(* Text is a sequence of atoms.  Every character the program gives a       *)
(* meaning to ("/", "#", "?", "-", ".", ":", a digit, the characters of    *)
(* small_url_encode) is an atom of its own; a run of ordinary letters may  *)
(* be written as one atom.  A path is a sequence of components, each a     *)
(* text; the empty path is the filesystem root "/".  A document is a       *)
(* sequence of lines, a line a sequence of attribute occurrences.          *)
(***************************************************************************)
EXTENDS Integers, Sequences, FiniteSets, TLC

VARIABLES docs, cache, errors, out, pc, stack, cur, load, visited, linkLog, scans

vars == <<docs, cache, errors, out, pc, stack, cur, load, visited, linkLog, scans>>

----------------------------------------------------------------------------
(* Text helpers (str methods used by the program).                         *)

None == [none |-> TRUE]

Some(x) == [none |-> FALSE, val |-> x]

Html == <<".", "html">>

DotDot == <<".", ".">>

Dot == <<".">>

Digits == {"0", "1", "2", "3", "4", "5", "6", "7", "8", "9"}

Pop(p) == IF p = <<>> THEN <<>> ELSE SubSeq(p, 1, Len(p) - 1)

Last(p) == p[Len(p)]

StartsWith(s, p) == Len(s) >= Len(p) /\ SubSeq(s, 1, Len(p)) = p

EndsWith(s, p) == Len(s) >= Len(p) /\ SubSeq(s, Len(s) - Len(p) + 1, Len(s)) = p

\* position of the first occurrence of atom c in s, 0 when there is none
Find(s, c) ==
    IF \E i \in 1..Len(s) : s[i] = c
    THEN CHOOSE i \in 1..Len(s) : s[i] = c /\ \A j \in 1..(i - 1) : s[j] # c
    ELSE 0

\* position of the last occurrence of atom c in s, 0 when there is none
RFind(s, c) ==
    IF \E i \in 1..Len(s) : s[i] = c
    THEN CHOOSE i \in 1..Len(s) : s[i] = c /\ \A j \in (i + 1)..Len(s) : s[j] # c
    ELSE 0

\* s.splitn(2, c): the part before the first c, and the part after it if any
SplitN2(s, c) ==
    LET i == Find(s, c)
    IN  IF i = 0 THEN [head |-> s, rest |-> None]
        ELSE [head |-> SubSeq(s, 1, i - 1), rest |-> Some(SubSeq(s, i + 1, Len(s)))]

\* s.split(c): all the parts, empty ones included
RECURSIVE Split(_, _)
Split(s, c) ==
    LET i == Find(s, c)
    IN  IF i = 0 THEN <<s>> ELSE <<SubSeq(s, 1, i - 1)>> \o Split(SubSeq(s, i + 1, Len(s)), c)

RECURSIVE Replace(_, _, _)
Replace(s, from, to) ==
    IF s = <<>> THEN <<>>
    ELSE (IF s[1] = from THEN to ELSE <<s[1]>>) \o Replace(Tail(s), from, to)

RECURSIVE TrimLeftMatches(_, _)
TrimLeftMatches(s, c) ==
    IF s # <<>> /\ s[1] = c THEN TrimLeftMatches(Tail(s), c) ELSE s

small_url_encode(s) ==
    LET r1  == Replace(s,   "<",  <<"%", "3", "C">>)
        r2  == Replace(r1,  ">",  <<"%", "3", "E">>)
        r3  == Replace(r2,  " ",  <<"%", "2", "0">>)
        r4  == Replace(r3,  "?",  <<"%", "3", "F">>)
        r5  == Replace(r4,  "'",  <<"%", "2", "7">>)
        r6  == Replace(r5,  "&",  <<"%", "2", "6">>)
        r7  == Replace(r6,  ",",  <<"%", "2", "C">>)
        r8  == Replace(r7,  ":",  <<"%", "3", "A">>)
        r9  == Replace(r8,  ";",  <<"%", "3", "B">>)
        r10 == Replace(r9,  "[",  <<"%", "5", "B">>)
        r11 == Replace(r10, "]",  <<"%", "5", "D">>)
    IN  Replace(r11, "\"", <<"%", "2", "2">>)

----------------------------------------------------------------------------
(* Paths (std::path methods used by the program).                          *)

Root == <<<<"docs">>>>

IsPrefix(p, q) == Len(p) <= Len(q) /\ SubSeq(q, 1, Len(p)) = p

\* file.strip_prefix(root).unwrap_or(&file): a relative path under the root,
\* the unchanged absolute path elsewhere
Pretty(file) ==
    IF IsPrefix(Root, file)
    THEN [rel |-> TRUE, p |-> SubSeq(file, Len(Root) + 1, Len(file))]
    ELSE [rel |-> FALSE, p |-> file]

\* Path::extension of the final component
Extension(path) ==
    IF path = <<>> \/ Last(path) = DotDot THEN None
    ELSE LET name == Last(path)
             i == RFind(name, ".")
         IN  IF i <= 1 THEN None ELSE Some(SubSeq(name, i + 1, Len(name)))

\* Path::components of a textual path: the empty parts and the "." parts
\* disappear, a leading "/" is the RootDir component
HasRootDir(s) == s # <<>> /\ s[1] = "/"

RECURSIVE DropTrivial(_)
DropTrivial(parts) ==
    IF parts = <<>> THEN <<>>
    ELSE IF parts[1] = <<>> \/ parts[1] = Dot THEN DropTrivial(Tail(parts))
    ELSE <<parts[1]>> \o DropTrivial(Tail(parts))

Components(s) == DropTrivial(Split(s, "/"))

\* Path::new(base).join(url), as text
Join(base, url) ==
    IF HasRootDir(url) THEN url
    ELSE IF base = <<>> THEN url
    ELSE IF Last(base) = "/" THEN base \o url
    ELSE base \o <<"/">> \o url

----------------------------------------------------------------------------
(* Documents.  An attribute occurrence is [tag, attr, val]: the tag it     *)
(* stands in ("base" for <base, "redirect" for the text                    *)
(* <p>Redirecting to <a), the attribute name and the quoted value.         *)

Attr(tag, attr, val) == [tag |-> tag, attr |-> attr, val |-> val]

Href(url) == Attr("a", "href", url)

Id(id) == Attr("h2", "id", id)

\* lines().nth(6) is the seventh line
RedirectLine == 6

\* the seventh line of a soft redirect page
RedirectPage(url) ==
    [n \in 1..(RedirectLine + 1) |->
        IF n = RedirectLine + 1 THEN <<Attr("redirect", "href", url)>> ELSE <<>>]

maybe_redirect(source) ==
    IF Len(source) < RedirectLine + 1 THEN None
    ELSE LET redirect_line == source[RedirectLine + 1]
             hits == {j \in 1..Len(redirect_line) : redirect_line[j].tag = "redirect"}
         IN  IF hits = {} THEN None
             ELSE Some(redirect_line[CHOOSE j \in hits : \A h \in hits : j <= h].val)

\* the occurrences of a document in reading order, each with its line
RECURSIVE Occurrences(_, _)
Occurrences(contents, n) ==
    IF n > Len(contents) THEN <<>>
    ELSE [j \in 1..Len(contents[n]) |-> [tok |-> contents[n][j], n |-> n]]
         \o Occurrences(contents, n + 1)

\* with_attrs_in_source: the (value, i, base) triples handed to the callback,
\* i the 0-based index of enumerate(); `at` is the line counted from 1
RECURSIVE ScanAttrs(_, _, _)
ScanAttrs(occs, attr, base) ==
    IF occs = <<>> THEN <<>>
    ELSE IF occs[1].tok.attr # attr THEN ScanAttrs(Tail(occs), attr, base)
    ELSE IF occs[1].tok.tag = "base" THEN ScanAttrs(Tail(occs), attr, occs[1].tok.val)
    ELSE <<[val |-> occs[1].tok.val, i |-> occs[1].n - 1, base |-> base, at |-> occs[1].n]>>
         \o ScanAttrs(Tail(occs), attr, base)

with_attrs_in_source(contents, attr) == ScanAttrs(Occurrences(contents, 1), attr, <<>>)

----------------------------------------------------------------------------
(* The filesystem the program reads: path -> node.                         *)

Dir == [kind |-> "dir", open |-> TRUE, read |-> FALSE, text |-> <<>>]

File(text) == [kind |-> "file", open |-> TRUE, read |-> TRUE, text |-> text]

\* a file that cannot be opened (permissions)
NoOpen == [kind |-> "file", open |-> FALSE, read |-> FALSE, text |-> <<>>]

\* a file that opens but whose read_to_string fails (not UTF-8)
NoRead == [kind |-> "file", open |-> TRUE, read |-> FALSE, text |-> <<>>]

N(x) == <<x>> \o Html

InRoot(name) == Root \o <<name>>

InSub(name) == Root \o <<<<"sub">>, name>>

Base == (<<>> :> Dir) @@ (Root :> Dir)

\* fragments that exist, that are missing, and a document without any id
CorpusAnchors ==
    Base
    @@ (InRoot(N("a")) :> File(<<
            <<Href(N("b") \o <<"#", "x">>), Href(N("b") \o <<"#", "zz">>)>>,
            <<Href(N("n") \o <<"#", "x">>), Href(N("n") \o <<"#", "y">>)>> >>))
    @@ (InRoot(N("b")) :> File(<<
            <<Id(<<"x">>), Id(<<"x">>)>>,
            <<Id(<<"y", " ", "z">>)>> >>))
    @@ (InRoot(N("n")) :> File(<< <<>> >>))

\* a redirect to a redirect to a genuine document
CorpusChain ==
    Base
    @@ (InRoot(N("a")) :> File(<<
            <<Href(N("r1") \o <<"#", "x">>)>>,
            <<Href(N("r1") \o <<"#", "q">>), Href(N("r1") \o <<"#", "7">>)>> >>))
    @@ (InRoot(N("r1")) :> File(RedirectPage(N("r2"))))
    @@ (InRoot(N("r2")) :> File(RedirectPage(N("c"))))
    @@ (InRoot(N("c")) :> File(<< <<Id(<<"x">>)>> >>))

\* redirects whose target does not exist
CorpusBroken ==
    Base
    @@ (InRoot(N("a")) :> File(<<
            <<Href(N("r") \o <<"#", "frag">>)>>,
            <<Href(N("r0")), Href(N("c") \o <<"#", "x">>)>> >>))
    @@ (InRoot(N("r")) :> File(RedirectPage(N("gone"))))
    @@ (InRoot(N("r0")) :> File(RedirectPage(N("r"))))
    @@ (InRoot(N("c")) :> File(<< <<Id(<<"x">>)>> >>))

\* redirects that loop back
CorpusCycle ==
    Base
    @@ (InRoot(N("a")) :> File(<< <<Href(N("p") \o <<"#", "x">>)>> >>))
    @@ (InRoot(N("p")) :> File(RedirectPage(N("q"))))
    @@ (InRoot(N("q")) :> File(RedirectPage(N("p"))))

\* links that climb above the corpus root, and an absolute link
CorpusEscape ==
    Base
    @@ (<<N("o")>> :> File(<< <<Id(<<"m">>)>> >>))
    @@ (InRoot(N("a")) :> File(<<
            <<Href(<<".", ".", "/">> \o N("x")),
              Href(<<".", ".", "/">> \o N("o") \o <<"#", "m">>)>>,
            <<Href(<<"/">> \o N("abs"))>> >>))
    @@ (InRoot(<<"sub">>) :> Dir)
    @@ (InSub(N("d")) :> File(<<
            <<Href(<<".", ".", "/", ".", ".", "/", ".", ".", "/">> \o N("o") \o <<"#", "k">>)>>,
            <<Href(<<".", ".", "/">> \o N("a"))>> >>))

\* files that cannot be opened or read
CorpusUnreadable ==
    Base
    @@ (InRoot(N("a")) :> NoOpen)
    @@ (InRoot(N("u")) :> NoRead)
    @@ (InRoot(N("r")) :> File(RedirectPage(N("a"))))
    @@ (InRoot(N("s")) :> File(RedirectPage(N("u"))))
    @@ (InRoot(N("b")) :> File(<<
            <<Href(N("r") \o <<"#", "x">>)>>,
            <<Href(N("s"))>>,
            <<Href(N("a"))>> >>))

\* files the walk skips, a directory link and a file that is not HTML
CorpusSkipped ==
    Base
    @@ (InRoot(N("a")) :> File(<<
            <<Href(<<"README", "#", "x">>)>>,
            <<Href(<<"struct", ".", "BTreeSet">> \o Html \o <<"#", "m">>),
              Href(<<"x", ".", "txt", "#", "zz">>)>>,
            <<Href(<<"sub", "/">>)>> >>))
    @@ (InRoot(<<"README">>) :> File(<< <<Id(<<"x">>)>> >>))
    @@ (InRoot(<<"struct", ".", "BTreeSet">> \o Html) :> File(<<
            <<Id(<<"m">>), Href(N("missing"))>> >>))
    @@ (InRoot(<<"x", ".", "txt">>) :> File(<< <<>> >>))
    @@ (InRoot(<<"sub">>) :> Dir)

\* one document reached directly and through a redirect written with ".."
CorpusAlias ==
    Base
    @@ (InRoot(N("a")) :> File(<<
            <<Href(<<"sub", "/">> \o N("r") \o <<"#", "x">>)>>,
            <<Href(N("c") \o <<"#", "x">>)>> >>))
    @@ (InRoot(N("c")) :> File(<< <<Id(<<"x">>)>> >>))
    @@ (InRoot(<<"sub">>) :> Dir)
    @@ (InSub(N("r")) :> File(RedirectPage(<<".", ".", "/">> \o N("c"))))

\* external urls, and a scheme the program does not know
CorpusExternal ==
    Base
    @@ (InRoot(N("a")) :> File(<<
            <<Href(N("b") \o <<"#", "x">>),
              Href(<<"http", ":", "/", "/", "h", "/", "#", "x">>),
              Href(<<"https", ":", "/", "/", "h">>)>>,
            <<Href(<<"javascript", ":", "v">>),
              Href(<<"ftp", ":", "/", "/", "h">>),
              Href(<<"irc", ":", "/", "/", "h">>)>>,
            <<Href(<<"data", ":", ",", "x">>),
              Href(<<"mailto", ":", "m">>)>> >>))
    @@ (InRoot(N("b")) :> File(<< <<Id(<<"x">>)>> >>))

\* fragments that look like line numbers, and one that does not quite
CorpusLines ==
    Base
    @@ (InRoot(N("a")) :> File(<<
            <<Href(N("b") \o <<"#", "1", "2">>), Href(N("b") \o <<"#", "1", "-", "6">>)>>,
            <<Href(N("b") \o <<"#", "1", "-", "2", "-", "3">>), Href(N("b") \o <<"#", "x">>)>>,
            <<Href(N("n") \o <<"#", "3">>)>> >>))
    @@ (InRoot(N("b")) :> File(<< <<Id(<<"x">>)>> >>))
    @@ (InRoot(N("n")) :> File(<< <<>> >>))

\* two documents that link to each other
CorpusMutual ==
    Base
    @@ (InRoot(N("a")) :> File(<<
            <<Id(<<"p">>)>>,
            <<Href(N("b")), Href(N("b") \o <<"#", "x">>), Href(N("b") \o <<"#", "nope">>)>>,
            <<Href(N("m"))>> >>))
    @@ (InRoot(N("b")) :> File(<<
            <<Id(<<"x">>), Href(N("a") \o <<"#", "p">>)>>,
            <<Href(N("a") \o <<"#", "q">>)>> >>))

\* ids written with a leading "#", and an id that is the encoded form of
\* another
CorpusIds ==
    Base
    @@ (InRoot(N("a")) :> File(<<
            <<Href(N("t") \o <<"#", "x">>), Href(N("t") \o <<"#", "#", "x">>)>>,
            <<Href(N("t") \o <<"#", "y", "%", "2", "0", "z">>),
              Href(N("t") \o <<"#", "w">>)>> >>))
    @@ (InRoot(N("t")) :> File(<<
            <<Id(<<"#", "x">>), Id(<<"y", " ", "z">>)>>,
            <<Id(<<"y", "%", "2", "0", "z">>), Id(<<"w">>), Id(<<"w">>)>> >>))

\* links that are only a fragment, without and with a base url
CorpusSelf ==
    Base
    @@ (InRoot(N("f")) :> File(<<
            <<Id(<<"x">>)>>,
            <<Href(<<"#", "x">>), Href(<<"#", "nope">>)>>,
            <<Href(<<"#", "7">>), Href(<<>>), Href(<<"?", "q", "#", "x">>)>>,
            <<Href(<<"#">>)>> >>))
    @@ (InRoot(N("g")) :> File(<<
            <<Attr("base", "href", <<"sub", "/">>)>>,
            <<Id(<<"x">>), Href(<<"#", "x">>)>> >>))
    @@ (InRoot(<<"sub">>) :> Dir)

\* one link for every state a target can be in
CorpusKinds ==
    Base
    @@ (InRoot(N("a")) :> File(<<
            <<Href(N("missing") \o <<"#", "x">>), Href(<<"sub", "/", "#", "x">>)>>,
            <<Href(<<"x", ".", "txt", "#", "zz">>), Href(N("r") \o <<"#", "f">>)>>,
            <<Href(N("b") \o <<"#", "nope">>), Href(N("b") \o <<"#", "x">>)>> >>))
    @@ (InRoot(N("b")) :> File(<< <<Id(<<"x">>)>> >>))
    @@ (InRoot(N("r")) :> File(RedirectPage(N("gone"))))
    @@ (InRoot(<<"x", ".", "txt">>) :> File(<< <<>> >>))
    @@ (InRoot(<<"sub">>) :> Dir)

Corpora ==
    [anchors |-> CorpusAnchors, chain |-> CorpusChain, broken |-> CorpusBroken,
     cycle |-> CorpusCycle, escape |-> CorpusEscape, unreadable |-> CorpusUnreadable,
     skipped |-> CorpusSkipped, alias |-> CorpusAlias,
     external |-> CorpusExternal, lines |-> CorpusLines, mutual |-> CorpusMutual,
     ids |-> CorpusIds, self |-> CorpusSelf, kinds |-> CorpusKinds]

\* the corpus of this run
FS == Corpora[docs]

----------------------------------------------------------------------------
(* What the operating system answers.                                      *)

\* the path after the kernel has walked it: every component but the last is
\* looked up in a directory, ".." steps to the parent
RECURSIVE Canon(_, _)
Canon(acc, rest) ==
    IF rest = <<>> THEN Some(acc)
    ELSE IF acc \notin DOMAIN FS \/ FS[acc].kind # "dir" THEN None
    ELSE IF rest[1] = DotDot THEN Canon(Pop(acc), Tail(rest))
    ELSE Canon(Append(acc, rest[1]), Tail(rest))

Node(path) ==
    LET c == Canon(<<>>, path)
    IN  IF c.none \/ c.val \notin DOMAIN FS THEN None ELSE Some(FS[c.val])

Exists(path) == ~Node(path).none

IsDir(path) == Exists(path) /\ Node(path).val.kind = "dir"

OpenOk(path) == Exists(path) /\ Node(path).val.open

ReadOk(path) == OpenOk(path) /\ Node(path).val.read

\* dir.read_dir()
Children(dir) == {p \in DOMAIN FS : Len(p) = Len(dir) + 1 /\ IsPrefix(dir, p)}

----------------------------------------------------------------------------
(* Defects and the errors flag.  A printed line is [file, line, kind, arg, *)
(* frag]; `at` is the line (counted from 1) of the attribute that caused   *)
(* it and `by` the link being checked when it was printed, both kept for   *)
(* the properties only.  An effect is what a piece of code did to the      *)
(* flag (`set`: it executed *errors = true) and printed.                   *)

NoLink == [src |-> <<>>, k |-> 0]

Defect(file, line, kind, arg, frag, at) ==
    [file |-> file, line |-> line, kind |-> kind, arg |-> arg, frag |-> frag,
     at |-> at, by |-> NoLink]

Quiet == [set |-> FALSE, prints |-> <<>>]

By(prints, link) == [j \in 1..Len(prints) |-> [prints[j] EXCEPT !.by = link]]

SkipRedirect == [followed |-> FALSE, skip |-> TRUE]

FromRedirect(b) == [followed |-> b, skip |-> FALSE]

\* FileEntry { source, ids }
FileEntry(source, ids) == [source |-> source, ids |-> ids]

\* the callback of parse_ids on one id attribute: acc is the anchor set with
\* what the scan has set and printed so far
InsertId(acc, found, file) ==
    LET fragment == found.val
        frag == TrimLeftMatches(fragment, "#")
        encoded == small_url_encode(frag)
    IN  IF frag \notin acc.ids
        THEN [ids |-> acc.ids \cup {frag, encoded}, set |-> acc.set, prints |-> acc.prints]
        ELSE [ids |-> acc.ids \cup {encoded}, set |-> TRUE,
              prints |-> Append(acc.prints,
                                Defect(file, found.i, "id is not unique", fragment,
                                       <<>>, found.at))]

RECURSIVE InsertIds(_, _, _)
InsertIds(acc, found, file) ==
    IF found = <<>> THEN acc
    ELSE InsertIds(InsertId(acc, found[1], file), Tail(found), file)

\* FileEntry::parse_ids; `ran` tells whether the extractor was run
Scanned(r) == [ids |-> r.ids, set |-> r.set, prints |-> r.prints, ran |-> TRUE]

\* parse_ids without the test that the anchor set is still empty
parse_ids_unguarded(entry, file, contents) ==
    Scanned(InsertIds([ids |-> entry.ids, set |-> FALSE, prints |-> <<>>],
                      with_attrs_in_source(contents, "id"), file))

parse_ids(entry, file, contents) ==
    IF entry.ids = {}
    THEN Scanned(InsertIds([ids |-> entry.ids, set |-> FALSE, prints |-> <<>>],
                           with_attrs_in_source(contents, "id"), file))
    ELSE [ids |-> entry.ids, set |-> FALSE, prints |-> <<>>, ran |-> FALSE]

\* file.parent().unwrap().join(url)
redirect_file(file, url) ==
    IF HasRootDir(url) THEN Components(url) ELSE Pop(file) \o Components(url)

LoadResult(tag, c, pretty_file, contents, target) ==
    [tag |-> tag, cache |-> c, pretty_file |-> pretty_file, contents |-> contents,
     target |-> target]

\* load_fresh that takes a redirect page reached through a redirect for the
\* document itself (one hop only)
load_fresh_one_hop(c, file, redirect, contents) ==
    IF ~maybe_redirect(contents).none /\ redirect # FromRedirect(TRUE)
    THEN (IF redirect = SkipRedirect
          THEN LoadResult("IsRedirect", c, Pretty(file), <<>>, file)
          ELSE LoadResult("Follow", c, Pretty(file), contents,
                          redirect_file(file, maybe_redirect(contents).val)))
    ELSE LoadResult("Ok", (Pretty(file) :> FileEntry(contents, {})) @@ c,
                    Pretty(file), contents, file)

\* load_fresh without the IsRedirect return: a redirect page that is checked
\* itself is taken for a document
load_fresh_no_skip(c, file, redirect, contents) ==
    IF ~maybe_redirect(contents).none /\ redirect # SkipRedirect
    THEN LoadResult("Follow", c, Pretty(file), contents,
                    redirect_file(file, maybe_redirect(contents).val))
    ELSE LoadResult("Ok", (Pretty(file) :> FileEntry(contents, {})) @@ c,
                    Pretty(file), contents, file)

\* load_file on a path with no cache entry, after the contents were read:
\* "Follow" stands for the recursive call on the redirect's target
load_fresh(c, file, redirect, contents) ==
    IF ~maybe_redirect(contents).none
    THEN (IF redirect = SkipRedirect
          THEN LoadResult("IsRedirect", c, Pretty(file), <<>>, file)
          ELSE LoadResult("Follow", c, Pretty(file), contents,
                          redirect_file(file, maybe_redirect(contents).val)))
    ELSE LoadResult("Ok", (Pretty(file) :> FileEntry(contents, {})) @@ c,
                    Pretty(file), contents, file)

\* open_error that does not tell a followed redirect target apart
open_error_always_io(file, redirect) == "IOError"

\* the error of File::open
open_error(file, redirect) ==
    IF redirect = FromRedirect(TRUE) THEN "BrokenRedirect" ELSE "IOError"

\* load_file that does not look into the cache and reads the file again
load_file_rereads(c, file, redirect) ==
    IF ~OpenOk(file)
    THEN LoadResult(open_error(file, redirect), c, Pretty(file), <<>>, file)
    ELSE IF ~ReadOk(file) THEN LoadResult("IOError", c, Pretty(file), <<>>, file)
    ELSE load_fresh(c, file, redirect, Node(file).val.text)

\* load_file that hands out no contents for a file it finds in the cache
load_file_forgets_source(c, file, redirect) ==
    IF Pretty(file) \in DOMAIN c
    THEN LoadResult("Ok", c, Pretty(file), <<>>, file)
    ELSE IF ~OpenOk(file)
    THEN LoadResult(open_error(file, redirect), c, Pretty(file), <<>>, file)
    ELSE IF ~ReadOk(file) THEN LoadResult("IOError", c, Pretty(file), <<>>, file)
    ELSE load_fresh(c, file, redirect, Node(file).val.text)

\* one invocation of load_file, up to its return or its recursive call
load_file(c, file, redirect) ==
    IF Pretty(file) \in DOMAIN c
    THEN LoadResult("Ok", c, Pretty(file), c[Pretty(file)].source, file)
    ELSE IF ~OpenOk(file)
    THEN LoadResult(open_error(file, redirect), c, Pretty(file), <<>>, file)
    ELSE IF ~ReadOk(file) THEN LoadResult("IOError", c, Pretty(file), <<>>, file)
    ELSE load_fresh(c, file, redirect, Node(file).val.text)

----------------------------------------------------------------------------
(* check: the filters, and the callback run on every href.                 *)

\* the paths check() returns early on (file.ends_with(..))
Exceptions ==
    { <<<<"std">>, <<"string">>, <<"struct", ".", "String", ".", "html">>>>,
      <<<<"interpret">>, <<"struct", ".", "ValTy", ".", "html">>>>,
      <<<<"symbol">>, <<"struct", ".", "InternedString", ".", "html">>>>,
      <<<<"ast">>, <<"struct", ".", "ThinVec", ".", "html">>>>,
      <<<<"util">>, <<"struct", ".", "ThinVec", ".", "html">>>>,
      <<<<"util">>, <<"struct", ".", "RcSlice", ".", "html">>>>,
      <<<<"layout">>, <<"struct", ".", "TyLayout", ".", "html">>>>,
      <<<<"ty">>, <<"struct", ".", "Slice", ".", "html">>>>,
      <<<<"ty">>, <<"enum", ".", "Attributes", ".", "html">>>>,
      <<<<"ty">>, <<"struct", ".", "SymbolName", ".", "html">>>>,
      <<<<"string">>, <<"struct", ".", "String", ".", "html">>>>,
      <<<<"btree_set">>, <<"struct", ".", "BTreeSet", ".", "html">>>>,
      <<<<"struct", ".", "BTreeSet", ".", "html">>>>,
      <<<<"btree_map">>, <<"struct", ".", "BTreeMap", ".", "html">>>>,
      <<<<"hash_map">>, <<"struct", ".", "HashMap", ".", "html">>>>,
      <<<<"hash_set">>, <<"struct", ".", "HashSet", ".", "html">>>>,
      <<<<"sync">>, <<"struct", ".", "Lrc", ".", "html">>>>,
      <<<<"sync">>, <<"struct", ".", "RwLock", ".", "html">>>>,
      <<<<"deriving">>, <<"generic">>, <<"index", ".", "html">>>>,
      <<<<"deriving">>, <<"generic">>, <<"macro", ".", "vec", ".", "html">>>>,
      <<<<"deriving">>, <<"custom">>, <<"macro", ".", "panic", ".", "html">>>>,
      <<<<"proc_macro_impl">>, <<"macro", ".", "panic", ".", "html">>>> }

\* the two early returns of check()
Skipped(file) ==
    \/ Extension(file) # Some(<<"html">>)
    \/ \E e \in Exceptions : EndsWith(file, e)

\* External that does not know the data: scheme
External_without_data(url) ==
    \/ StartsWith(url, <<"http", ":">>)
    \/ StartsWith(url, <<"https", ":">>)
    \/ StartsWith(url, <<"javascript", ":">>)
    \/ StartsWith(url, <<"ftp", ":">>)
    \/ StartsWith(url, <<"irc", ":">>)

External(url) ==
    \/ StartsWith(url, <<"http", ":">>)
    \/ StartsWith(url, <<"https", ":">>)
    \/ StartsWith(url, <<"javascript", ":">>)
    \/ StartsWith(url, <<"ftp", ":">>)
    \/ StartsWith(url, <<"irc", ":">>)
    \/ StartsWith(url, <<"data", ":">>)

\* the url with its fragment and its query string split off
SplitUrl(href) ==
    LET parts == SplitN2(href, "#")
    IN  [url |-> SplitN2(parts.head, "?").head, fragment |-> parts.rest]

\* the loop over the components of the joined url
RECURSIVE ApplyComponents(_, _)
ApplyComponents(path, parts) ==
    IF parts = <<>> THEN path
    ELSE IF parts[1] = DotDot THEN ApplyComponents(Pop(path), Tail(parts))
    ELSE ApplyComponents(Append(path, parts[1]), Tail(parts))

\* whether the ".." components pop more than `depth` components
RECURSIVE ClimbsAbove(_, _)
ClimbsAbove(depth, parts) ==
    IF parts = <<>> THEN FALSE
    ELSE IF parts[1] = DotDot THEN depth = 0 \/ ClimbsAbove(depth - 1, Tail(parts))
    ELSE ClimbsAbove(depth + 1, Tail(parts))

\* ResolvePath that also panics when ".." would leave the corpus root
ResolvePath_fatal_above_root(file, base, url) ==
    IF base = <<>> /\ url = <<>> THEN [panic |-> FALSE, path |-> file]
    ELSE IF HasRootDir(Join(base, url))
            \/ ClimbsAbove(Len(Pop(file)) - Len(Root), Components(Join(base, url)))
    THEN [panic |-> TRUE, path |-> Pop(file)]
    ELSE [panic |-> FALSE,
          path |-> ApplyComponents(Pop(file), Components(Join(base, url)))]

\* ResolvePath that resolves an empty url like any other, against the
\* directory of the file
ResolvePath_no_self(file, base, url) ==
    IF HasRootDir(Join(base, url)) THEN [panic |-> TRUE, path |-> Pop(file)]
    ELSE [panic |-> FALSE,
          path |-> ApplyComponents(Pop(file), Components(Join(base, url)))]

\* the candidate path of a link of `file`; panic when the joined url has a
\* RootDir component
ResolvePath(file, base, url) ==
    IF base = <<>> /\ url = <<>> THEN [panic |-> FALSE, path |-> file]
    ELSE LET joined == Join(base, url)
         IN  IF HasRootDir(joined) THEN [panic |-> TRUE, path |-> Pop(file)]
             ELSE [panic |-> FALSE,
                   path |-> ApplyComponents(Pop(file), Components(joined))]

directory_link(pretty_file, h, path) ==
    [set |-> TRUE,
     prints |-> <<Defect(pretty_file, h.i + 1, "directory link", Pretty(path), <<>>, h.at)>>]

\* broken_link that forgets *errors = true
broken_link_unflagged(pretty_file, h, path) ==
    [set |-> FALSE,
     prints |-> <<Defect(pretty_file, h.i + 1, "broken link", Pretty(path), <<>>, h.at)>>]

broken_link(pretty_file, h, path) ==
    [set |-> TRUE,
     prints |-> <<Defect(pretty_file, h.i + 1, "broken link", Pretty(path), <<>>, h.at)>>]

broken_redirect(pretty_file, h, target) ==
    [set |-> TRUE,
     prints |-> <<Defect(pretty_file, h.i + 1, "broken redirect", target, <<>>, h.at)>>]

broken_fragment(pretty_file, h, fragment, pretty_path) ==
    [set |-> TRUE,
     prints |-> <<Defect(pretty_file, h.i + 1, "broken link fragment", pretty_path,
                         fragment, h.at)>>]

AllNumeric(f) == \A j \in 1..Len(f) : f[j] \in Digits

\* IsLineFragment that knows the fragments made of digits only
IsLineFragment_digits_only(fragment) == AllNumeric(fragment)

\* fragment.splitn(2, '-').all(|f| f.chars().all(|c| c.is_numeric()))
IsLineFragment(fragment) ==
    LET parts == SplitN2(fragment, "-")
    IN  AllNumeric(parts.head) /\ (parts.rest.none \/ AllNumeric(parts.rest.val))

\* check_href without the test of the extension of the target
check_href_any_extension(file, pretty_file, h) ==
    LET u == SplitUrl(h.val)
        r == ResolvePath(file, h.base, u.url)
        path == r.path
        stop(tag, eff, looked) ==
            [tag |-> tag, eff |-> eff, path |-> path, fragment |-> u.fragment,
             looked |-> looked]
    IN  IF External(h.val) THEN stop("return", Quiet, FALSE)
        ELSE IF r.panic THEN stop("panic", Quiet, FALSE)
        ELSE IF ~Exists(path) THEN stop("return", broken_link(pretty_file, h, path), TRUE)
        ELSE IF IsDir(path) THEN stop("return", directory_link(pretty_file, h, path), TRUE)
        ELSE stop("load", Quiet, TRUE)

\* the callback up to the call of load_file: what it does with the link,
\* whether it asked the filesystem about the path (path.exists()) and whether
\* it goes on to load the target
check_href(file, pretty_file, h) ==
    LET u == SplitUrl(h.val)
        r == ResolvePath(file, h.base, u.url)
        path == r.path
        ext == Extension(path)
        stop(tag, eff, looked) ==
            [tag |-> tag, eff |-> eff, path |-> path, fragment |-> u.fragment,
             looked |-> looked]
    IN  IF External(h.val) THEN stop("return", Quiet, FALSE)
        ELSE IF r.panic THEN stop("panic", Quiet, FALSE)
        ELSE IF ~Exists(path) THEN stop("return", broken_link(pretty_file, h, path), TRUE)
        ELSE IF IsDir(path) THEN stop("return", directory_link(pretty_file, h, path), TRUE)
        ELSE IF ~ext.none /\ ext.val # <<"html">> THEN stop("return", Quiet, TRUE)
        ELSE stop("load", Quiet, TRUE)

\* the callback after load_file returned Ok((pretty_path, contents)); `parsed`
\* tells whether it called parse_ids on the target
check_fragment(c, pretty_file, h, fragment, pretty_path, contents) ==
    IF fragment.none \/ IsLineFragment(fragment.val)
    THEN [cache |-> c, set |-> FALSE, prints |-> <<>>, ran |-> FALSE, parsed |-> FALSE]
    ELSE LET entry == c[pretty_path]
             p == parse_ids(entry, pretty_path, contents)
             missing == fragment.val \notin p.ids
             eff == IF missing THEN broken_fragment(pretty_file, h, fragment.val, pretty_path)
                    ELSE Quiet
         IN  [cache |-> [c EXCEPT ![pretty_path].ids = p.ids],
              set |-> p.set \/ eff.set,
              prints |-> p.prints \o eff.prints,
              ran |-> p.ran,
              parsed |-> TRUE]

----------------------------------------------------------------------------
(* The run.  pc: "walk" in the loop of walk, "href" in the loop over the   *)
(* hrefs of cur.file, "load" inside load_file for a link target, "panic"   *)
(* after a fatal error, "success"/"failure" after main.  load holds the    *)
(* arguments of the current invocation of load_file, the link it works for *)
(* (path, fragment) and the files its earlier invocations were given.      *)
(* cur.cached tells whether load_file found the checked file in the cache.  *)
(* visited, linkLog and scans record what happened: the directory entries  *)
(* whose loop iteration finished, the links whose callback returned, the   *)
(* cache keys the id extractor was run for.                                *)

NoCur == [file |-> <<>>, pretty_file |-> Pretty(<<>>), contents |-> <<>>, hrefs |-> <<>>, k |-> 0,
          cached |-> FALSE]

NoLoad == [file |-> <<>>, redirect |-> SkipRedirect, path |-> <<>>, fragment |-> None,
           seen |-> {}]

Frame(dir) == [dir |-> dir, todo |-> Children(dir)]

Top == stack[Len(stack)]

Link == [src |-> cur.file, k |-> cur.k]

\* a link whose callback returned: the path and fragment it computed, whether
\* its file came from the cache, whether it looked the path up, called
\* load_file, called parse_ids on the target
Logged(r, looked, loaded, parsed) ==
    [src |-> cur.file, k |-> cur.k, h |-> cur.hrefs[cur.k],
     path |-> r.path, fragment |-> r.fragment, cached |-> cur.cached,
     looked |-> looked, loaded |-> loaded, parsed |-> parsed]

Init ==
    /\ docs \in DOMAIN Corpora
    /\ cache = <<>>
    /\ errors = FALSE
    /\ out = <<>>
    /\ pc = "walk"
    /\ stack = <<Frame(Root)>>
    /\ cur = NoCur
    /\ load = NoLoad
    /\ visited = {}
    /\ linkLog = <<>>
    /\ scans = <<>>

\* walk: the next entry is a directory
WalkDir ==
    /\ pc = "walk"
    /\ \E e \in Top.todo :
        /\ FS[e].kind = "dir"
        /\ stack' = Append([stack EXCEPT ![Len(stack)].todo = @ \ {e}], Frame(e))
    /\ UNCHANGED <<docs, cache, errors, out, pc, cur, load, visited, linkLog, scans>>

\* walk: the loop of a subdirectory is over
WalkReturn ==
    /\ pc = "walk"
    /\ Len(stack) > 1
    /\ Top.todo = {}
    /\ stack' = Pop(stack)
    /\ visited' = visited \cup {Top.dir}
    /\ UNCHANGED <<docs, cache, errors, out, pc, cur, load, linkLog, scans>>

\* walk: the next entry is a file for which check returns None
CheckNone ==
    /\ pc = "walk"
    /\ \E e \in Top.todo :
        /\ FS[e].kind # "dir"
        /\ \/ Skipped(e)
           \/ load_file(cache, e, SkipRedirect).tag # "Ok"
        /\ stack' = [stack EXCEPT ![Len(stack)].todo = @ \ {e}]
        /\ visited' = visited \cup {e}
    /\ UNCHANGED <<docs, cache, errors, out, pc, cur, load, linkLog, scans>>

\* walk: the next entry is a file that check loads; its ids are parsed
CheckFile ==
    /\ pc = "walk"
    /\ \E e \in Top.todo :
        /\ FS[e].kind # "dir"
        /\ ~Skipped(e)
        /\ \E res \in {load_file(cache, e, SkipRedirect)} :
            /\ res.tag = "Ok"
            /\ \E p \in {parse_ids(res.cache[res.pretty_file], res.pretty_file, res.contents)} :
                /\ cache' = [res.cache EXCEPT ![res.pretty_file].ids = p.ids]
                /\ errors' = (errors \/ p.set)
                /\ out' = out \o p.prints
                /\ scans' = IF p.ran THEN Append(scans, res.pretty_file) ELSE scans
            /\ cur' = [file |-> e, pretty_file |-> res.pretty_file,
                       contents |-> res.contents,
                       hrefs |-> with_attrs_in_source(res.contents, "href"), k |-> 1,
                       cached |-> res.pretty_file \in DOMAIN cache]
        /\ stack' = [stack EXCEPT ![Len(stack)].todo = @ \ {e}]
    /\ pc' = "href"
    /\ UNCHANGED <<docs, load, visited, linkLog>>

\* the callback on the next href, up to its return or its call of load_file
CheckHref ==
    /\ pc = "href"
    /\ cur.k <= Len(cur.hrefs)
    /\ \E r \in {check_href(cur.file, cur.pretty_file, cur.hrefs[cur.k])} :
        /\ errors' = (errors \/ r.eff.set)
        /\ out' = out \o By(r.eff.prints, Link)
        /\ pc' = CASE r.tag = "return" -> "href"
                   [] r.tag = "panic" -> "panic"
                   [] r.tag = "load" -> "load"
        /\ cur' = IF r.tag = "return" THEN [cur EXCEPT !.k = @ + 1] ELSE cur
        /\ linkLog' = IF r.tag = "return" THEN Append(linkLog, Logged(r, r.looked, FALSE, FALSE)) ELSE linkLog
        /\ load' = IF r.tag = "load"
                   THEN [file |-> r.path, redirect |-> FromRedirect(FALSE),
                         path |-> r.path, fragment |-> r.fragment, seen |-> {}]
                   ELSE load
    /\ UNCHANGED <<docs, cache, stack, visited, scans>>

\* load_file found a redirect page and calls itself on its target
LoadFollow ==
    /\ pc = "load"
    /\ \E res \in {load_file(cache, load.file, load.redirect)} :
        /\ res.tag = "Follow"
        /\ load' = [load EXCEPT !.file = res.target, !.redirect = FromRedirect(TRUE),
                                !.seen = @ \cup {load.file}]
    /\ UNCHANGED <<docs, cache, errors, out, pc, stack, cur, visited, linkLog, scans>>

\* load_file fails with IOError and the callback panics
LoadPanic ==
    /\ pc = "load"
    /\ load_file(cache, load.file, load.redirect).tag = "IOError"
    /\ pc' = "panic"
    /\ UNCHANGED <<docs, cache, errors, out, stack, cur, load, visited, linkLog, scans>>

\* load_file fails with BrokenRedirect and the callback reports it
LoadBroken ==
    /\ pc = "load"
    /\ \E res \in {load_file(cache, load.file, load.redirect)} :
        /\ res.tag = "BrokenRedirect"
        /\ \E eff \in {broken_redirect(cur.pretty_file, cur.hrefs[cur.k], res.target)} :
            /\ errors' = (errors \/ eff.set)
            /\ out' = out \o By(eff.prints, Link)
    /\ linkLog' = Append(linkLog, Logged(load, TRUE, TRUE, FALSE))
    /\ cur' = [cur EXCEPT !.k = @ + 1]
    /\ pc' = "href"
    /\ load' = NoLoad
    /\ UNCHANGED <<docs, cache, stack, visited, scans>>

\* load_file returns the target and the callback checks the fragment
LoadReturn ==
    /\ pc = "load"
    /\ \E res \in {load_file(cache, load.file, load.redirect)} :
        /\ res.tag = "Ok"
        /\ \E f \in {check_fragment(res.cache, cur.pretty_file, cur.hrefs[cur.k],
                                    load.fragment, res.pretty_file, res.contents)} :
            /\ cache' = f.cache
            /\ errors' = (errors \/ f.set)
            /\ out' = out \o By(f.prints, Link)
            /\ scans' = IF f.ran THEN Append(scans, res.pretty_file) ELSE scans
            /\ linkLog' = Append(linkLog, Logged(load, TRUE, TRUE, f.parsed))
    /\ cur' = [cur EXCEPT !.k = @ + 1]
    /\ pc' = "href"
    /\ load' = NoLoad
    /\ UNCHANGED <<docs, stack, visited>>

\* check returns Some(pretty_file) and walk drops the source of that entry
CheckDone ==
    /\ pc = "href"
    /\ cur.k > Len(cur.hrefs)
    /\ cache' = [cache EXCEPT ![cur.pretty_file].source = <<>>]
    /\ visited' = visited \cup {cur.file}
    /\ cur' = NoCur
    /\ pc' = "walk"
    /\ UNCHANGED <<docs, errors, out, stack, load, linkLog, scans>>

\* main: the walk of the root is over
Finish ==
    /\ pc = "walk"
    /\ Len(stack) = 1
    /\ Top.todo = {}
    /\ pc' = IF errors THEN "failure" ELSE "success"
    /\ visited' = visited \cup {Root}
    /\ UNCHANGED <<docs, cache, errors, out, stack, cur, load, linkLog, scans>>

Next ==
    \/ WalkDir
    \/ WalkReturn
    \/ CheckNone
    \/ CheckFile
    \/ CheckHref
    \/ LoadFollow
    \/ LoadPanic
    \/ LoadBroken
    \/ LoadReturn
    \/ CheckDone
    \/ Finish

Spec == Init /\ [][Next]_vars

----------------------------------------------------------------------------
(* Vocabulary of the properties.                                           *)

\* the path a cache key or a printed path stands for, and the file it names
Unpretty(key) == IF key.rel THEN Root \o key.p ELSE key.p

DocOf(key) == Canon(<<>>, Unpretty(key)).val

Text(path) == Node(path).val.text

\* a soft redirect page / a genuine document
IsRedirectPage(path) == ReadOk(path) /\ ~maybe_redirect(Text(path)).none

Genuine(path) == ReadOk(path) /\ maybe_redirect(Text(path)).none

RedirectOf(path) == redirect_file(path, maybe_redirect(Text(path)).val)

\* where a chain of at most n redirects starting at path ends
RECURSIVE Follow(_, _)
Follow(path, n) ==
    IF n > 0 /\ IsRedirectPage(path) THEN Follow(RedirectOf(path), n - 1) ELSE path

ChainEnd(path) == Follow(path, Cardinality(DOMAIN FS))

\* the anchors a document defines: every raw id and its encoded form
IdPlaces(path) ==
    {pl \in (1..Len(Text(path))) \X (1..3) :
        pl[2] <= Len(Text(path)[pl[1]]) /\ Text(path)[pl[1]][pl[2]].attr = "id"}

Anchors(path) ==
    UNION {{TrimLeftMatches(Text(path)[pl[1]][pl[2]].val, "#"),
            small_url_encode(TrimLeftMatches(Text(path)[pl[1]][pl[2]].val, "#"))} :
           pl \in IdPlaces(path)}

Logs == {linkLog[j] : j \in 1..Len(linkLog)}

\* the lines printed while the link l was checked
PrintedBy(l) == {j \in 1..Len(out) : out[j].by = [src |-> l.src, k |-> l.k]}

KindsBy(l) == {out[j].kind : j \in PrintedBy(l)}

ScannedKeys == {scans[j] : j \in 1..Len(scans)}

ScanCount(doc) == Cardinality({j \in 1..Len(scans) : DocOf(scans[j]) = doc})

Checked(l) == ~l.fragment.none /\ ~IsLineFragment(l.fragment.val)

Ended == pc \in {"success", "failure"}

----------------------------------------------------------------------------
(* C1: over the whole run the id extractor is run at most once for every   *)
(* document of the corpus.                                                 *)
C1_ScannedAtMostOnce == \A doc \in DOMAIN FS : ScanCount(doc) <= 1

C2_SecondParse ==
    \A key \in DOMAIN cache \cap ScannedKeys :
        \A contents \in {Text(Unpretty(key)), <<>>} :
            \A p \in {parse_ids(cache[key], key, contents)} :
                p.ids = cache[key].ids /\ p.prints = <<>> /\ ~p.set

NotUnique(key, o) ==
    Cardinality({j \in 1..Len(o) : o[j].kind = "id is not unique" /\ o[j].file = key})

C2_StepKeeps ==
    \A key \in DOMAIN cache \cap ScannedKeys :
        cache'[key].ids = cache[key].ids /\ NotUnique(key, out') = NotUnique(key, out)

(* C2: a parse_ids call on an entry that was parsed before, with the       *)
(* document's contents or with released contents, leaves the anchor set    *)
(* unchanged, prints no "id is not unique" and does not set errors; and no *)
(* step of the run changes the anchor set of an entry parsed before or     *)
(* prints "id is not unique" for it.                                       *)
C2_ParseIdsIdempotent == []C2_SecondParse /\ [][C2_StepKeeps]_vars

\* two links with a checked fragment reached the same parsed entry
C2_Witness ==
    \E l1, l2 \in Logs :
        /\ l1 # l2 /\ l1.path = l2.path /\ Checked(l1) /\ Checked(l2)
        /\ Pretty(l1.path) \in DOMAIN cache \cap ScannedKeys
        /\ cache[Pretty(l1.path)].ids # {}

\* links that are not external, and links whose target check() loads
Local(l) == ~External(l.h.val)

Loads(l) == Local(l) /\ check_href(l.src, Pretty(l.src), l.h).tag = "load"

Hop1(path) == RedirectOf(path)

Hop2(path) == RedirectOf(RedirectOf(path))

\* path is a redirect to a redirect to a genuine document
TwoHops(path) ==
    /\ IsRedirectPage(path)
    /\ IsRedirectPage(Hop1(path))
    /\ Genuine(Hop2(path))

\* what C3 says of the checked link l with fragment x through A -> B -> C
ValidatedAgainstC(l) ==
    /\ ("broken link fragment" \in KindsBy(l)) <=> (l.fragment.val \notin Anchors(Hop2(l.path)))
    /\ \A j \in PrintedBy(l) :
          out[j].kind = "broken link fragment"
              => /\ DocOf(out[j].arg) = DocOf(Pretty(Hop2(l.path)))
                 /\ out[j].frag = l.fragment.val
    /\ Pretty(l.path) \notin DOMAIN cache
    /\ Pretty(Hop1(l.path)) \notin DOMAIN cache

C4_LoadTerminates == pc = "load" => load.file \notin load.seen

\* a redirect page whose chain of redirects ends at a path that does not exist
BrokenChain(path) == IsRedirectPage(path) /\ ~Exists(ChainEnd(path))

AllVisited == \A f \in DOMAIN FS : IsPrefix(Root, f) => f \in visited

\* every href of every document the walk checked had its callback return
AllLinksChecked ==
    \A f \in DOMAIN FS :
        IsPrefix(Root, f) /\ FS[f].kind = "file" /\ ~Skipped(f) /\ Genuine(f) =>
            \A k \in 1..Len(with_attrs_in_source(Text(f), "href")) :
                \E l \in Logs : l.src = f /\ l.k = k

C5_State ==
    /\ \A l \in Logs :
          Loads(l) /\ BrokenChain(l.path) =>
              /\ KindsBy(l) = {"broken redirect"}
              /\ Cardinality(PrintedBy(l)) = 1
              /\ Pretty(ChainEnd(l.path)) \notin DOMAIN cache
    /\ \A key \in DOMAIN cache : Exists(Unpretty(key))
    /\ pc = "panic" /\ load # NoLoad => ~BrokenChain(load.path)
    /\ Ended => AllVisited /\ AllLinksChecked

C5_Step ==
    (pc = "load" /\ BrokenChain(load.path) /\ pc' # "load") =>
        /\ pc' = "href"
        /\ cur' = [cur EXCEPT !.k = @ + 1]
        /\ stack' = stack

(* C5: a link to a redirect page whose followed chain ends at a missing    *)
(* path prints exactly one "broken redirect" and nothing else, creates no  *)
(* cache entry for the missing path, does not abort the run: the callback  *)
(* returns and the loop goes on with the next href, and a run that ends    *)
(* has visited every entry and checked every link.                         *)
C5_BrokenRedirect == []C5_State /\ [][C5_Step]_vars

\* the run ended after a broken redirect was reported and a later link of
\* the same file was checked
C5_Witness ==
    /\ Ended
    /\ \E l1, l2 \in Logs :
        /\ Loads(l1) /\ BrokenChain(l1.path) /\ KindsBy(l1) = {"broken redirect"}
        /\ l2.src = l1.src /\ l2.k > l1.k /\ Loads(l2) /\ ~BrokenChain(l2.path)

\* the url of a link joined to its base, when there is one to resolve
Joined(l) == Join(l.h.base, SplitUrl(l.h.val).url)

Resolved(l) == Local(l) /\ (l.h.base # <<>> \/ SplitUrl(l.h.val).url # <<>>)

Absolute(l) == Resolved(l) /\ HasRootDir(Joined(l))

\* the ".." of the link pop more components than its file's directory has
\* below the corpus root
Escapes(l) ==
    /\ Resolved(l)
    /\ ~HasRootDir(Joined(l))
    /\ ClimbsAbove(Len(Pop(l.src)) - Len(Root), Components(Joined(l)))

\* the link the callback is working on
CurLink == [src |-> cur.file, k |-> cur.k, h |-> cur.hrefs[cur.k]]

C7_ReadFailureFatal ==
    /\ \A f \in visited : ~(FS[f].kind = "file" /\ ~Skipped(f) /\ ~ReadOk(f))
    /\ \A l \in Logs : Loads(l) => ReadOk(l.path)

(* C8: every printed defect carries the line number, counted from 1, of the *)
(* attribute that caused it.                                                *)
C8_OneBasedLines == \A j \in 1..Len(out) : out[j].line = out[j].at

C9_State ==
    /\ errors <=> out # <<>>
    /\ pc = "failure" => errors
    /\ pc = "success" => ~errors
    /\ Ended => AllVisited /\ AllLinksChecked

C9_Step ==
    /\ errors => errors'
    /\ errors' /\ ~errors => Len(out') > Len(out)
    /\ Len(out') > Len(out) => errors' /\ pc' = "href"

(* C9: errors starts false, becomes true exactly in the steps that print a  *)
(* defect and never becomes false again; a step that prints a defect goes   *)
(* on with the loop over the hrefs; a run that ends has visited every entry *)
(* and every link of the checked files, and ends in failure iff a defect    *)
(* was printed.                                                             *)
C9_Verdict == []C9_State /\ [][C9_Step]_vars

\* a run that ended in failure and went on after its first defect
C9_Witness ==
    /\ pc = "failure"
    /\ \E l1, l2 \in Logs : KindsBy(l1) # {} /\ l2.src = l1.src /\ l2.k > l1.k

(* C10: after the walk's loop iteration for a file has finished, the cache  *)
(* entry keyed by that file, if there is one, has empty contents.           *)
C10_Released ==
    \A f \in visited :
        FS[f].kind = "file" /\ Pretty(f) \in DOMAIN cache => cache[Pretty(f)].source = <<>>

\* the external scheme prefixes
SchemePrefixes ==
    {<<"http", ":">>, <<"https", ":">>, <<"javascript", ":">>, <<"ftp", ":">>, <<"irc", ":">>,
     <<"data", ":">>}

HasExternalScheme(url) == \E p \in SchemePrefixes : StartsWith(url, p)

C11_State ==
    \A l \in Logs :
        HasExternalScheme(l.h.val) =>
            PrintedBy(l) = {} /\ ~l.looked /\ ~l.loaded /\ ~l.parsed

C11_Step ==
    (pc = "href" /\ cur.k <= Len(cur.hrefs) /\ HasExternalScheme(cur.hrefs[cur.k].val)) =>
        /\ out' = out
        /\ errors' = errors
        /\ cache' = cache
        /\ scans' = scans
        /\ pc' = "href"
        /\ cur' = [cur EXCEPT !.k = @ + 1]

(* C11: the callback on an href that starts with http:, https:,            *)
(* javascript:, ftp:, irc: or data: returns at once: it prints nothing,    *)
(* leaves errors and the cache (entries, contents, anchor sets) as they    *)
(* were, does not ask the filesystem about any path, loads and parses      *)
(* nothing, and the loop goes on with the next href.                       *)
C11_ExternalNoOp == []C11_State /\ [][C11_Step]_vars

\* an href of every external scheme was passed over while the cache held an
\* entry, and the run went on to report a link of an unknown scheme
C11_Witness ==
    /\ DOMAIN cache # {}
    /\ \A p \in SchemePrefixes : \E l \in Logs : StartsWith(l.h.val, p)
    /\ \E l \in Logs : ~HasExternalScheme(l.h.val) /\ KindsBy(l) = {"broken link"}

\* a group of digits; digits only, or two groups separated by one hyphen
DigitGroup(f) == f # <<>> /\ \A j \in 1..Len(f) : f[j] \in Digits

LineNumberLike(f) ==
    \/ DigitGroup(f)
    \/ \E j \in 1..Len(f) :
          f[j] = "-" /\ DigitGroup(SubSeq(f, 1, j - 1)) /\ DigitGroup(SubSeq(f, j + 1, Len(f)))

C12_State ==
    \A l \in Logs :
        ~l.fragment.none /\ LineNumberLike(l.fragment.val) =>
            ~l.parsed /\ "broken link fragment" \notin KindsBy(l)

C12_Step ==
    (pc = "load" /\ ~load.fragment.none /\ LineNumberLike(load.fragment.val)) =>
        /\ scans' = scans
        /\ \A key \in DOMAIN cache' :
              cache'[key].ids = IF key \in DOMAIN cache THEN cache[key].ids ELSE {}

(* C12: a link whose fragment is made of digits only, or of two groups of   *)
(* digits separated by one hyphen, never has its fragment looked up: its    *)
(* callback does not call parse_ids on the target, no step taken for it     *)
(* runs the id extractor or changes an anchor set, and it never prints      *)
(* "broken link fragment", whatever the anchors of the target are.          *)
C12_LineNumbersUnchecked == []C12_State /\ [][C12_Step]_vars

\* links with the fragments 12 and 1-6 to a loaded document that defines
\* neither were passed, and the fragment 1-2-3 was reported
C12_Witness ==
    \E l1, l2, l3 \in Logs :
        /\ l1.loaded /\ l1.fragment = Some(<<"1", "2">>) /\ KindsBy(l1) = {}
        /\ l2.loaded /\ l2.fragment = Some(<<"1", "-", "6">>) /\ KindsBy(l2) = {}
        /\ l1.fragment.val \notin Anchors(l1.path) /\ l2.fragment.val \notin Anchors(l2.path)
        /\ l3.fragment = Some(<<"1", "-", "2", "-", "3">>)
        /\ KindsBy(l3) = {"broken link fragment"}

\* the hrefs of a file as its text on disk gives them
DiskHrefs(f) == with_attrs_in_source(Text(f), "href")

\* the path an href of the file f stands for
Target(f, h) ==
    IF h.base = <<>> /\ SplitUrl(h.val).url = <<>> THEN f
    ELSE ApplyComponents(Pop(f), Components(Join(h.base, SplitUrl(h.val).url)))

LinkKinds == {"broken link", "directory link", "broken redirect", "broken link fragment"}

\* the link defects the corpus on disk calls for, for an href h of the file f
\* whose check returns
ExpectedKinds(f, h) ==
    LET t == Target(f, h)
        fragment == SplitUrl(h.val).fragment
    IN  IF External(h.val) THEN {}
        ELSE IF ~Exists(t) THEN {"broken link"}
        ELSE IF IsDir(t) THEN {"directory link"}
        ELSE IF Extension(t) \notin {None, Some(<<"html">>)} THEN {}
        ELSE IF IsRedirectPage(t) /\ ~OpenOk(ChainEnd(t)) THEN {"broken redirect"}
        ELSE IF fragment.none \/ IsLineFragment(fragment.val) THEN {}
        ELSE IF fragment.val \in Anchors(ChainEnd(t)) THEN {}
        ELSE {"broken link fragment"}

\* the link defects printed for the link l
LinkDefects(l) == {j \in PrintedBy(l) : out[j].kind \in LinkKinds}

(* C13: what check() does with the links of a file F does not depend on     *)
(* whether load_file found F in the cache: in both cases the contents it    *)
(* works on are the text of F on disk, every href is the href of the text   *)
(* on disk, its candidate path is the path the href stands for, and the     *)
(* link defects printed for it are the ones the corpus on disk calls for,   *)
(* each naming F; so the defects of F's links are the same in every order   *)
(* of the walk.                                                             *)
C13_CacheIndependent ==
    /\ pc \in {"href", "load"} =>
          cur.contents = Text(cur.file) /\ cur.hrefs = DiskHrefs(cur.file)
    /\ \A l \in Logs :
          /\ l.k <= Len(DiskHrefs(l.src)) /\ l.h = DiskHrefs(l.src)[l.k]
          /\ l.path = Target(l.src, l.h)
          /\ {out[j].kind : j \in LinkDefects(l)} = ExpectedKinds(l.src, l.h)
          /\ Cardinality(LinkDefects(l)) <= 1
          /\ \A j \in LinkDefects(l) : out[j].file = Pretty(l.src)

\* the run ended; one file was checked from a cache entry made for an earlier
\* link to it and another was not, and each had a link reported and a link
\* with a fragment that was found
C13_Witness ==
    /\ Ended
    /\ \E l1, l2, l3, l4 \in Logs :
        /\ l1.cached /\ l2.cached /\ l1.src = l2.src
        /\ ~l3.cached /\ ~l4.cached /\ l3.src = l4.src
        /\ KindsBy(l1) = {"broken link fragment"} /\ KindsBy(l3) = {"broken link fragment"}
        /\ Checked(l2) /\ KindsBy(l2) = {} /\ Checked(l4) /\ KindsBy(l4) = {}

\* the id attributes of a document as written, and their encoded forms
RawIds(path) == {Text(path)[pl[1]][pl[2]].val : pl \in IdPlaces(path)}

RawOrEncoded(path) == RawIds(path) \cup {small_url_encode(id) : id \in RawIds(path)}

\* a link with a checked fragment whose target is a genuine HTML document
ToDocument(l) ==
    /\ Local(l) /\ l.loaded /\ Checked(l)
    /\ Genuine(l.path) /\ Extension(l.path) = Some(<<"html">>)

(* C14: a link to an existing genuine HTML document T with a fragment f     *)
(* that is not a line number fragment prints "broken link fragment" iff f   *)
(* is neither an id of T as written nor the encoded form of one, whatever   *)
(* the cache held of T when the link was checked.                           *)
C14_RawOrEncoded ==
    \A l \in Logs :
        ToDocument(l) =>
            (("broken link fragment" \in KindsBy(l)) <=>
                (l.fragment.val \notin RawOrEncoded(l.path)))

\* the id attributes of a document in reading order
DiskIds(path) == with_attrs_in_source(Text(path), "id")

\* the ids that repeat the raw value of an earlier id of the document
Repeats(ids) ==
    SelectSeq([j \in 1..Len(ids) |-> [val |-> ids[j].val, at |-> ids[j].at,
                                      dup |-> \E i \in 1..(j - 1) : ids[i].val = ids[j].val]],
              LAMBDA r : r.dup)

\* the "id is not unique" lines printed for the cache key
NotUniqueOf(key) ==
    SelectSeq(out, LAMBDA d : d.kind = "id is not unique" /\ d.file = key)

(* C15: for a document whose ids were parsed, the "id is not unique" lines  *)
(* printed are, in order, exactly the id attributes that have the same raw  *)
(* value as an earlier id attribute of the document, and the anchor set     *)
(* holds every raw id of the document.                                      *)
C15_DuplicateRawIds ==
    \A key \in DOMAIN cache \cap ScannedKeys :
        /\ Len(NotUniqueOf(key)) = Len(Repeats(DiskIds(Unpretty(key))))
        /\ \A j \in 1..Len(NotUniqueOf(key)) :
              /\ NotUniqueOf(key)[j].arg = Repeats(DiskIds(Unpretty(key)))[j].val
              /\ NotUniqueOf(key)[j].at = Repeats(DiskIds(Unpretty(key)))[j].at
        /\ RawIds(Unpretty(key)) \subseteq cache[key].ids

\* the files whose loop iteration finishes in this step
Finishing == {e \in visited' \ visited : FS[e].kind = "file"}

C16_State ==
    /\ \A key \in DOMAIN cache : Genuine(Unpretty(key))
    /\ pc \in {"href", "load"} => ~IsRedirectPage(cur.file)
    /\ \A l \in Logs : ~IsRedirectPage(l.src)
    /\ \A j \in 1..Len(out) : ~IsRedirectPage(Unpretty(out[j].file))

C16_Step ==
    /\ (pc = "walk" /\ \E e \in Finishing : ~Skipped(e) /\ IsRedirectPage(e)) =>
          /\ cache' = cache /\ out' = out /\ errors' = errors
          /\ load' = load /\ cur' = cur /\ linkLog' = linkLog /\ scans' = scans
          /\ pc' = "walk"
    /\ (pc = "load" /\ IsRedirectPage(load.path)) =>
          DOMAIN cache' \ DOMAIN cache \subseteq {Pretty(ChainEnd(load.path))}

(* C16: every cache key names a genuine document, never a soft redirect.    *)
(* The walk's step on a file that is a soft redirect adds no cache entry,   *)
(* prints nothing, leaves errors alone, does not follow the redirect and    *)
(* runs no callback on the hrefs of the file; no link is ever checked, and  *)
(* no defect printed, for a redirect page as source.  A step taken for a    *)
(* link to a redirect page adds no entry but the one of the genuine         *)
(* document its chain ends at.                                              *)
C16_OnlyDocumentsCached == []C16_State /\ [][C16_Step]_vars

\* the run ended; two redirect pages were walked and a link through both was
\* resolved to the cached document they end at
C16_Witness ==
    /\ Ended
    /\ \E e1, e2 \in visited :
          e1 # e2 /\ FS[e1].kind = "file" /\ IsRedirectPage(e1)
                  /\ FS[e2].kind = "file" /\ IsRedirectPage(e2)
    /\ \E l \in Logs :
          /\ l.loaded /\ TwoHops(l.path)
          /\ Pretty(ChainEnd(l.path)) \in DOMAIN cache

\* the kinds of the link defects printed for the link l
LinkKindsBy(l) == {out[j].kind : j \in LinkDefects(l)}

NotHtml(path) == Extension(path) \notin {None, Some(<<"html">>)}

\* what C17 says of a link whose callback returned
OneDefectByTargetState(l) ==
    /\ Cardinality(LinkDefects(l)) <= 1
    /\ IF ~Exists(l.path)
       THEN KindsBy(l) = {"broken link"} /\ Cardinality(PrintedBy(l)) = 1
            /\ ~l.loaded /\ ~l.parsed
       ELSE IF IsDir(l.path)
       THEN KindsBy(l) = {"directory link"} /\ Cardinality(PrintedBy(l)) = 1
            /\ ~l.loaded /\ ~l.parsed
       ELSE IF NotHtml(l.path)
       THEN PrintedBy(l) = {} /\ ~l.loaded /\ ~l.parsed
       ELSE l.loaded /\ LinkKindsBy(l) \subseteq {"broken redirect", "broken link fragment"}

(* C17: a link that is not external prints at most one link defect, by the  *)
(* state of its target: a missing path prints one "broken link" and is not  *)
(* loaded; a directory prints one "directory link" and is neither loaded    *)
(* nor parsed; an existing file with an extension other than html prints    *)
(* nothing and is neither loaded nor parsed; any other target is loaded,    *)
(* nothing being printed before the load, and prints at most one of         *)
(* "broken redirect" and "broken link fragment".                            *)
C17_OneDefectPerLink ==
    /\ \A l \in Logs : ~HasExternalScheme(l.h.val) => OneDefectByTargetState(l)
    /\ pc = "load" =>
          /\ Exists(load.path) /\ ~IsDir(load.path) /\ ~NotHtml(load.path)
          /\ PrintedBy(CurLink) = {}

\* one file had a link of every kind: missing, directory, not HTML, broken
\* redirect, missing fragment, and a fragment that was found
C17_Witness ==
    \E l1, l2, l3, l4, l5, l6 \in Logs :
        /\ KindsBy(l1) = {"broken link"}
        /\ KindsBy(l2) = {"directory link"}
        /\ Exists(l3.path) /\ NotHtml(l3.path) /\ ~l3.fragment.none /\ KindsBy(l3) = {}
        /\ KindsBy(l4) = {"broken redirect"}
        /\ KindsBy(l5) = {"broken link fragment"}
        /\ l6.loaded /\ l6.parsed /\ KindsBy(l6) = {}

Modes == {SkipRedirect, FromRedirect(FALSE), FromRedirect(TRUE)}

C18_State ==
    \A key \in DOMAIN cache :
        /\ \A redirect \in Modes :
              load_file(cache, Unpretty(key), redirect)
                  = LoadResult("Ok", cache, key, cache[key].source, Unpretty(key))
        /\ cache[key].ids # {} =>
              \A contents \in {cache[key].source, <<>>} :
                  parse_ids(cache[key], key, contents).ids = cache[key].ids

C18_Step ==
    /\ DOMAIN cache \subseteq DOMAIN cache'
    /\ \A key \in DOMAIN cache : cache[key].ids # {} => cache'[key].ids = cache[key].ids

(* C18: no step of the run removes a cache entry, and no step changes an    *)
(* anchor set that is not empty: not a later parse_ids call, not the        *)
(* release of the contents, not a later load of the same path, which        *)
(* returns the entry's contents and leaves the cache as it is.              *)
C18_EntriesPersist == []C18_State /\ [][C18_Step]_vars

\* the run ended; an entry with anchors had its contents released and was
\* the target of two links, one of them without a checked fragment
C18_Witness ==
    /\ Ended
    /\ \E l1, l2 \in Logs :
        /\ l1 # l2 /\ l1.path = l2.path /\ l1.loaded /\ l2.loaded
        /\ l1.parsed /\ ~l2.parsed
        /\ Pretty(l1.path) \in DOMAIN cache
        /\ cache[Pretty(l1.path)].ids # {}
        /\ cache[Pretty(l1.path)].source = <<>>

\* an href with an empty url part and a fragment, no base url being active
FragmentOnly(h) ==
    h.base = <<>> /\ SplitUrl(h.val).url = <<>> /\ ~SplitUrl(h.val).fragment.none

\* the link resolved to its own file and was served from that file's entry
OwnEntry(l) ==
    /\ l.path = l.src
    /\ l.loaded
    /\ Pretty(l.src) \in DOMAIN cache

\* the fragment was validated against the anchors of the file itself
OwnAnchors(l) ==
    /\ ("broken link fragment" \in KindsBy(l)) <=> (l.fragment.val \notin Anchors(l.src))
    /\ \A j \in LinkDefects(l) :
          /\ out[j].kind = "broken link fragment"
          /\ out[j].file = Pretty(l.src) /\ out[j].arg = Pretty(l.src)
          /\ out[j].frag = l.fragment.val

C19_Step ==
    (pc \in {"href", "load"} /\ cur.k <= Len(cur.hrefs) /\ FragmentOnly(cur.hrefs[cur.k])) =>
        /\ pc' \in {"href", "load"}
        /\ DOMAIN cache' = DOMAIN cache
        /\ \A key \in DOMAIN cache : cache'[key].source = cache[key].source
        /\ pc' = "load" => load'.file = cur.file /\ Pretty(cur.file) \in DOMAIN cache

(* C19: a link that is only a fragment #x, in a file F with no base url     *)
(* active, resolves to F, is served from the cache entry F already has (no  *)
(* entry is added, no contents change) and prints "broken link fragment"    *)
(* naming F iff x is not among the anchors of F.                            *)
C19_SelfLink ==
    \A l \in Logs : FragmentOnly(l.h) => OwnEntry(l) /\ OwnAnchors(l)

C19_StateChecked ==
    \A l \in Logs :
        FragmentOnly(l.h) =>
            /\ OwnEntry(l)
            /\ IF IsLineFragment(l.fragment.val)
               THEN KindsBy(l) = {} /\ ~l.parsed
               ELSE l.parsed /\ OwnAnchors(l)

(* C19 as amended: the same for every x that is not a line number fragment; *)
(* a line number fragment (the empty fragment included) resolves to F and   *)
(* is served from F's entry too, but is not validated and prints nothing.   *)
C19_SelfLinkChecked == []C19_StateChecked /\ [][C19_Step]_vars

\* in one file a link #x found its anchor, a link #nope was reported and a
\* link #7 was passed
C19_Witness ==
    \E l1, l2, l3 \in Logs :
        /\ l1.src = l2.src /\ l2.src = l3.src
        /\ l1.h.val = <<"#", "x">> /\ l1.parsed /\ KindsBy(l1) = {}
        /\ l2.h.val = <<"#", "nope">> /\ KindsBy(l2) = {"broken link fragment"}
        /\ l3.h.val = <<"#", "7">> /\ KindsBy(l3) = {}

====
